---------------------------- MODULE Spec2Model ----------------------------
(***************************************************************************)
(* A model of the prime finder: the primality oracle and the sequential    *)
(* scanners (prime_finder.py), the parallel scanner built on a process     *)
(* pool (src/prime_finder_parallel.py), the three checkpoint stores        *)
(* (benchmarks/benchmark.py, benchmarks/benchmark_parallel.py,             *)
(* src/prime_finder_checkpoint.py) and the benchmark run loops.            *)
(*                                                                         *)
(* The module holds several specifications over one set of variables;      *)
(* each specification leaves the variables of the other parts at their     *)
(* idle values.                                                            *)
(***************************************************************************)
EXTENDS Integers, Sequences, FiniteSets, TLC

VARIABLES
    \* SpecOracle: one call of a pure function
    fn,             \* the function that was called ("idle" before the call)
    arg,            \* its integer argument
    ret,            \* the value it returned
    \* SpecFirstN: find_n_primes and find_n_primes_parallel, loop by loop
    routine,        \* which of the two runs
    count,          \* its count argument
    primes,         \* its local list primes
    num,            \* find_n_primes: the candidate num
    upper_bound,    \* find_n_primes_parallel: the bound of the next scan
    scans,          \* find_n_primes_parallel: scans made so far
    loop_pc,        \* "entry", "loop", "scanned", "done"
    result,         \* the returned list
    \* SpecPool: one call of find_primes_up_to_parallel on a process pool
    limit,          \* its limit argument
    num_processes,  \* the pool's size (also the argument of SpecFirstN)
    pool_pc,        \* "call", "map", "done"
    next_task,      \* index of the next chunk of the task queue
    inflight,       \* chunks taken by a worker and not yet finished
    arrived,        \* <<chunk index, chunk results>> in order of completion
    par_primes,     \* the returned list
    \* SpecStore: a checkpoint store, its file, a save in steps and loads
    store,          \* the module whose save_checkpoint/load_checkpoint run
    file,           \* CHECKPOINT_FILE on disk: [exists, text]
    save_pc,        \* "idle", "open" (inside the with block), "interrupted", "killed"
    save_args,      \* <<count, elapsed_time, timestamp>> of the last save begun
    buffer,         \* text written to the open file object, not yet flushed
    saved,          \* <<count, elapsed_time>> of the last save, once it returned
    previous,       \* the file as it was when the last save began
    saves,          \* save_checkpoint calls begun so far
    loaded,         \* what the last load_checkpoint returned or raised
    loads,          \* load_checkpoint calls made so far
    \* SpecRun: one run of benchmark.py, benchmark_parallel.py (main) or
    \* prime_finder_checkpoint.py (find_primes_with_checkpoint)
    program,        \* the store's name of the program that runs
    argv,           \* the command line: count, time, start (each <<>> or <<n>>), resume
    args,           \* benchmark.py: the parsed arguments
    run_pc,         \* "parse", "init", "loop", "summary", "done", "timeout", "error",
                    \* "interrupted", "hung"
    mode,           \* "count" or "time"
    checkpoint,     \* what load_checkpoint gave the run
    start_count,
    start_time,
    now,            \* time.time(), in seconds
    cur_count,      \* the local count
    cur_primes,     \* the local primes
    elapsed,        \* the local elapsed
    batches,        \* loop iterations made so far
    error           \* the exception or exit that ended the run, if any

oracleVars == <<fn, arg, ret>>
firstNVars == <<routine, count, primes, num, upper_bound, scans, loop_pc, result>>
poolVars == <<limit, pool_pc, next_task, inflight, arrived, par_primes>>
storeVars == <<store, file, save_pc, save_args, buffer, saved, previous, saves, loaded, loads>>
runVars == <<program, argv, args, run_pc, mode, checkpoint, start_count, start_time, now,
             cur_count, cur_primes, elapsed, batches, error>>
vars == <<oracleVars, firstNVars, poolVars, num_processes, storeVars, runVars>>

(***************************************************************************)
(* Bounds of the model.                                                    *)
(***************************************************************************)
MinN == 6          \* is_prime is applied to every n in -MinN..MaxN
MaxN == 10000
MaxLimit == 40     \* find_primes_up_to is applied to every limit in -MinN..MaxLimit

MaxCount == 12     \* find_n_primes(_parallel) is applied to every count in 0..MaxCount
MaxSaves == 2      \* save_checkpoint calls in one behaviour of SpecStore
MaxLoads == 2      \* load_checkpoint calls in one behaviour of SpecStore
MaxParLimit == 9   \* the pool is run on every limit in -1..MaxParLimit

None == "None"

\* The worker counts the parallel scanner is run with.
WorkerCounts == {1, 2, 4, 8}

(***************************************************************************)
(* The idle values of each part's variables.                               *)
(***************************************************************************)
OracleIdle == fn = "idle" /\ arg = 0 /\ ret = None
FirstNIdle ==
    /\ routine = None /\ count = 0 /\ primes = <<>> /\ num = 0
    /\ upper_bound = 0 /\ scans = 0 /\ loop_pc = "idle" /\ result = None
PoolIdle ==
    /\ limit = 0 /\ pool_pc = "idle" /\ next_task = 0 /\ inflight = {}
    /\ arrived = <<>> /\ par_primes = None
NotLoaded == [kind |-> "return", type |-> "None", value |-> "None"]
StoreIdle ==
    /\ store = None /\ file = [exists |-> FALSE, text |-> <<>>] /\ save_pc = "idle"
    /\ save_args = <<>> /\ buffer = <<>> /\ saved = <<>>
    /\ previous = [exists |-> FALSE, text |-> <<>>] /\ loaded = NotLoaded
    /\ saves = 0 /\ loads = 0

NoArgv == [count |-> <<>>, time |-> <<>>, start |-> <<>>, resume |-> FALSE]
NoArgs == [count |-> <<>>, time |-> 0, start |-> 0, resume |-> FALSE]
RunIdle ==
    /\ program = None /\ argv = NoArgv /\ args = NoArgs /\ run_pc = "idle" /\ mode = None
    /\ checkpoint = NotLoaded /\ start_count = 0 /\ start_time = 0 /\ now = 0
    /\ cur_count = 0 /\ cur_primes = <<>> /\ elapsed = 0 /\ batches = 0
    /\ error = None

(***************************************************************************)
(* Python built-ins used by the code.                                      *)
(***************************************************************************)
\* range(a, b, step) for step > 0, as the sequence it iterates over.
range(a, b, step) ==
    LET len == IF b > a THEN (b - a + step - 1) \div step ELSE 0
    IN  [i \in 1..len |-> a + (i - 1) * step]

\* int(n**0.5) for n >= 0: the float square root truncated.  For the n of
\* this model (far below 2^52) the float result truncates to the integer
\* square root.
RECURSIVE isqrt_from(_, _)
isqrt_from(n, r) == IF (r + 1) * (r + 1) > n THEN r ELSE isqrt_from(n, r + 1)
int_sqrt(n) == isqrt_from(n, 0)

\* The values of a sequence.
Elems(s) == {s[i] : i \in 1..Len(s)}

\* F applied to the value of x, with x evaluated once.
ApplyTo(F(_), x) == CHOOSE r \in {F(v) : v \in {x}} : TRUE

(***************************************************************************)
(* prime_finder.py                                                         *)
(***************************************************************************)
is_prime_no_sqrt_bound(n) ==
    IF n < 2 THEN FALSE
    ELSE IF n = 2 THEN TRUE
    ELSE IF n % 2 = 0 THEN FALSE
    ELSE \A i \in Elems(range(3, int_sqrt(n), 2)) : n % i # 0

is_prime(n) ==
    IF n < 2 THEN FALSE
    ELSE IF n = 2 THEN TRUE
    ELSE IF n % 2 = 0 THEN FALSE
    ELSE \A i \in Elems(range(3, int_sqrt(n) + 1, 2)) : n % i # 0

find_primes_up_to_exclusive(lim) == SelectSeq(range(2, lim, 1), is_prime)

find_primes_up_to(lim) == SelectSeq(range(2, lim + 1, 1), is_prime)

\* The list find_n_primes(k) returns, as a function of k (the loop above run
\* to its end).
RECURSIVE find_n_primes_from(_, _, _)
find_n_primes_from(acc, cand, k) ==
    IF ~(Len(acc) < k) THEN acc
    ELSE find_n_primes_from(IF is_prime(cand) THEN Append(acc, cand) ELSE acc,
                            cand + 1, k)
find_n_primes(k) == find_n_primes_from(<<>>, 2, k)

(***************************************************************************)
(* src/prime_finder_parallel.py: its own copy of is_prime.                 *)
(***************************************************************************)
par_is_prime(n) ==
    IF n < 2 THEN FALSE
    ELSE IF n = 2 THEN TRUE
    ELSE IF n % 2 = 0 THEN FALSE
    ELSE \A i \in Elems(range(3, int_sqrt(n) + 1, 2)) : n % i # 0

\* is_prime_with_num(args), args = (num, _): the worker function, (num, is_prime(num)).
is_prime_with_num(item) == <<item[1], par_is_prime(item[1])>>

\* The work items of a scan: [(n, None) for n in range(2, limit + 1)].
work_items_short(lim) ==
    LET numbers == range(2, lim, 1)
    IN  [i \in 1..Len(numbers) |-> <<numbers[i], None>>]

work_items(lim) ==
    LET numbers == range(2, lim + 1, 1)
    IN  [i \in 1..Len(numbers) |-> <<numbers[i], None>>]

\* pool.map(is_prime_with_num, work_items) on a pool of w processes cuts the
\* items into chunks of ceil(len / (4 * w)) items, queues the chunks in
\* order, lets every worker apply the function to the items of the chunk it
\* took, and stores each chunk's results at the chunk's own position.
chunk_size(n, w) ==
    LET q == n \div (w * 4)
    IN  IF n % (w * 4) # 0 THEN q + 1 ELSE q

num_chunks(n, w) ==
    IF n = 0 THEN 0 ELSE (n + chunk_size(n, w) - 1) \div chunk_size(n, w)

chunk_items(items, w, c) ==
    LET cs == chunk_size(Len(items), w)
        last == IF c * cs < Len(items) THEN c * cs ELSE Len(items)
    IN  SubSeq(items, (c - 1) * cs + 1, last)

\* What a worker returns for one chunk.
map_chunk(items) == [i \in 1..Len(items) |-> is_prime_with_num(items[i])]

\* The result list of the map, from the chunks that arrived: in the order
\* of arrival (the mutant) and by chunk position (the pool).
RECURSIVE merge_by_arrival(_, _)
merge_by_arrival(arr, nch) ==
    IF arr = <<>> THEN <<>> ELSE Head(arr)[2] \o merge_by_arrival(Tail(arr), nch)

RECURSIVE merge_from(_, _, _)
merge_from(arr, c, nch) ==
    IF c > nch THEN <<>>
    ELSE (CHOOSE e \in Elems(arr) : e[1] = c)[2] \o merge_from(arr, c + 1, nch)
merge_results(arr, nch) == ApplyTo(LAMBDA a : merge_from(a, 1, nch), arr)

\* pool.map as its caller sees it: the results in the order of the items.
pool_map(items, w) ==
    LET nch == num_chunks(Len(items), w)
    IN  merge_results([c \in 1..nch |-> <<c, map_chunk(chunk_items(items, w, c))>>], nch)

\* primes = [num for num, is_p in results if is_p]
filter_primes(results) ==
    ApplyTo(LAMBDA kept : [i \in 1..Len(kept) |-> kept[i][1]],
            SelectSeq(results, LAMBDA r : r[2]))

find_primes_up_to_parallel(lim, np) ==
    IF lim < 2 THEN <<>> ELSE filter_primes(pool_map(work_items(lim), np))

\* int(count * (ln(count) + ln(ln(count)))) for count in 6..40, as the float
\* arithmetic of math.log gives it.
upper_bound_table ==
    <<14, 18, 22, 26, 31, 35, 40, 45, 50, 55, 60, 65, 71, 76, 81, 87, 92, 98,
      104, 109, 115, 121, 127, 132, 138, 144, 150, 156, 162, 168, 174, 181,
      187, 193, 199>>
upper_bound_estimate(cnt) == upper_bound_table[cnt - 5]

\* upper_bound * int(1.5) (mutant).
expand_bound_truncated_factor(ub) == ub * (3 \div 2)

\* int(upper_bound * 1.5)
expand_bound(ub) == (ub * 3) \div 2

\* The while True loop of find_n_primes_parallel from the bound ub on.
RECURSIVE scan_until(_, _, _)
scan_until(cnt, ub, np) ==
    LET found == find_primes_up_to_parallel(ub, np)
    IN  IF Len(found) >= cnt
        THEN SubSeq(found, 1, cnt)
        ELSE scan_until(cnt, expand_bound(ub), np)

\* find_n_primes_parallel as its caller sees it, for count >= 0.
find_n_primes_parallel(cnt, np) ==
    IF cnt = 0 THEN <<>>
    ELSE IF cnt = 1 THEN <<2>>
    ELSE scan_until(cnt, IF cnt < 6 THEN 15 ELSE upper_bound_estimate(cnt), np)

(***************************************************************************)
(* The checkpoint stores: benchmarks/benchmark.py,                         *)
(* benchmarks/benchmark_parallel.py and src/prime_finder_checkpoint.py.    *)
(*                                                                         *)
(* A file is [exists, text].  A text is the sequence of the chunks         *)
(* json.dump writes: punctuation <<"sym", s>>, keys <<"str", s>>, numbers  *)
(* as their decimal digits <<"int", ds>> and <<"float", ds, fs>>; a text   *)
(* that something else wrote may also hold <<"raw", s>> (characters that   *)
(* are no JSON) and <<"bytes", s>> (bytes that are no UTF-8).              *)
(***************************************************************************)
Missing == [exists |-> FALSE, text |-> <<>>]
FileOf(text) == [exists |-> TRUE, text |-> text]

Stores == {"benchmark", "benchmark_parallel", "prime_finder_checkpoint"}

\* int.__repr__ and int() for n >= 0.
RECURSIVE Digits(_)
Digits(n) == IF n < 10 THEN <<n>> ELSE Append(Digits(n \div 10), n % 10)

RECURSIVE FromDigits(_)
FromDigits(ds) ==
    IF Len(ds) = 0 THEN 0
    ELSE 10 * FromDigits(SubSeq(ds, 1, Len(ds) - 1)) + ds[Len(ds)]

int_token(n) == <<"int", Digits(n)>>
\* float.__repr__ of a whole number of seconds x: "x.0".
float_token(x) == <<"float", Digits(x), <<0>>>>

IsNumberToken(t) == t[1] \in {"int", "float"}
\* The number a number token parses to (the clock of the model counts whole
\* seconds, so every float of the model has the fraction 0).
TokenValue(t) == FromDigits(t[2])

\* The checkpoint dict with count and elapsed_time stored under each
\* other's key (mutant).
checkpoint_items_swapped(st, cnt, secs, np, stamp) ==
    << <<"count", float_token(secs)>>, <<"elapsed_time", int_token(cnt)>>,
       <<"timestamp", float_token(stamp)>> >>

\* The (key, value) items of the checkpoint dict each store builds.
checkpoint_items(st, cnt, secs, np, stamp) ==
    IF st = "benchmark_parallel"
    THEN << <<"count", int_token(cnt)>>, <<"elapsed_time", float_token(secs)>>,
            <<"num_processes", int_token(np)>>, <<"timestamp", float_token(stamp)>> >>
    ELSE << <<"count", int_token(cnt)>>, <<"elapsed_time", float_token(secs)>>,
            <<"timestamp", float_token(stamp)>> >>

\* The chunks json.dump writes for a dict, one fp.write each.
RECURSIVE item_chunks(_, _)
item_chunks(items, i) ==
    IF i > Len(items) THEN <<>>
    ELSE (IF i > 1 THEN << <<"sym", ", ">> >> ELSE <<>>)
         \o << <<"str", items[i][1]>>, <<"sym", ": ">>, items[i][2] >>
         \o item_chunks(items, i + 1)
dump_chunks(items) == << <<"sym", "{">> >> \o item_chunks(items, 1) \o << <<"sym", "}">> >>

\* The text of a complete save.
checkpoint_text(st, cnt, secs, np, stamp) ==
    dump_chunks(checkpoint_items(st, cnt, secs, np, stamp))

\* json.load on a text: the object as a function from its keys, a bare
\* number, or a JSONDecodeError.
IsObjectText(text) ==
    /\ Len(text) >= 2
    /\ text[1] = <<"sym", "{">>
    /\ text[Len(text)] = <<"sym", "}">>
    /\ LET m == Len(text) - 2
       IN  \/ m = 0
           \/ /\ m % 4 = 3
              /\ \A j \in 0..(m \div 4) :
                    /\ text[4 * j + 2][1] = "str"
                    /\ text[4 * j + 3] = <<"sym", ": ">>
                    /\ IsNumberToken(text[4 * j + 4])
                    /\ (4 * j + 5 <= m + 1) => text[4 * j + 5] = <<"sym", ", ">>

ObjectOf(text) ==
    LET n == (Len(text) + 1) \div 4
        keys == {text[4 * j + 2][2] : j \in 0..(n - 1)}
    IN  [k \in keys |->
            LET j == CHOOSE x \in 0..(n - 1) :
                        /\ text[4 * x + 2][2] = k
                        /\ \A y \in 0..(n - 1) : text[4 * y + 2][2] = k => y <= x
            IN  TokenValue(text[4 * j + 4])]

json_load(text) ==
    IF \E i \in 1..Len(text) : text[i][1] = "bytes"
    THEN [kind |-> "raise", value |-> "UnicodeDecodeError"]
    ELSE IF IsObjectText(text)
    THEN [kind |-> "return", type |-> "dict", value |-> ObjectOf(text)]
    ELSE IF Len(text) = 1 /\ IsNumberToken(text[1])
    THEN [kind |-> "return", type |-> "number", value |-> TokenValue(text[1])]
    ELSE [kind |-> "raise", value |-> "JSONDecodeError"]

ReturnNone == [kind |-> "return", type |-> "None", value |-> None]

\* load_checkpoint of benchmark.py and benchmark_parallel.py: None when the
\* file does not exist or json.load raises JSONDecodeError or IOError.
load_checkpoint_bench(f) ==
    IF ~f.exists THEN ReturnNone
    ELSE LET got == json_load(f.text)
         IN  IF got.kind = "raise" /\ got.value \in {"JSONDecodeError", "IOError"}
             THEN ReturnNone
             ELSE got

\* load_checkpoint of prime_finder_checkpoint.py: no handler, and the
\* recovery message reads checkpoint['count'] and checkpoint['elapsed_time'].
load_checkpoint_finder(f) ==
    IF ~f.exists THEN ReturnNone
    ELSE LET got == json_load(f.text)
         IN  IF got.kind = "raise" THEN got
             ELSE IF got.type # "dict"
             THEN [kind |-> "raise", value |-> "TypeError"]
             ELSE IF ~({"count", "elapsed_time"} \subseteq DOMAIN got.value)
             THEN [kind |-> "raise", value |-> "KeyError"]
             ELSE got

load_checkpoint(st, f) ==
    IF st = "prime_finder_checkpoint"
    THEN load_checkpoint_finder(f)
    ELSE load_checkpoint_bench(f)

(***************************************************************************)
(* Reference definitions the claims are stated against.                    *)
(***************************************************************************)
\* A sieve of Eratosthenes over 2..MaxN+1: strike the multiples a*k, k >= a,
\* of every a up to the square root of the top.
SieveTop == MaxN + 1
SievePrimes ==
    (2..SieveTop) \ UNION {{a * k : k \in a..(SieveTop \div a)} : a \in 2..int_sqrt(SieveTop)}

\* Primality by definition: n > 1 with no divisor strictly between 1 and n.
IsPrimeByDefinition(n) == n > 1 /\ \A d \in 2..(n - 1) : n % d # 0

StrictlyAscending(s) == \A i \in 1..(Len(s) - 1) : s[i] < s[i + 1]

(***************************************************************************)
(* SpecOracle: the pure functions applied to every input of the bounds.    *)
(***************************************************************************)
InitOracle ==
    /\ fn = "idle"
    /\ arg \in (-MinN)..MaxN
    /\ ret = None
    /\ FirstNIdle /\ PoolIdle /\ StoreIdle /\ RunIdle /\ num_processes = 1

CallIsPrime ==
    /\ fn = "idle"
    /\ fn' = "is_prime"
    /\ ret' = is_prime(arg)
    /\ UNCHANGED <<arg, firstNVars, poolVars, num_processes, storeVars, runVars>>

CallParIsPrime ==
    /\ fn = "idle"
    /\ fn' = "par_is_prime"
    /\ ret' = par_is_prime(arg)
    /\ UNCHANGED <<arg, firstNVars, poolVars, num_processes, storeVars, runVars>>

CallFindPrimesUpTo ==
    /\ fn = "idle"
    /\ arg <= MaxLimit
    /\ fn' = "find_primes_up_to"
    /\ ret' = find_primes_up_to(arg)
    /\ UNCHANGED <<arg, firstNVars, poolVars, num_processes, storeVars, runVars>>

NextOracle == CallIsPrime \/ CallParIsPrime \/ CallFindPrimesUpTo

SpecOracle == InitOracle /\ [][NextOracle]_vars

\* C1: is_prime(n), in both copies, is true exactly for the primes: false
\* for every n < 2, true for 2, false for every even n > 2, and equal to
\* membership in the reference sieve for every other n.
C1_IsPrimeCorrect ==
    fn \in {"is_prime", "par_is_prime"} =>
        /\ arg < 2 => ret = FALSE
        /\ arg = 2 => ret = TRUE
        /\ (arg > 2 /\ arg % 2 = 0) => ret = FALSE
        /\ arg >= 3 => (ret = TRUE <=> arg \in SievePrimes)
        /\ ret = TRUE <=> arg \in SievePrimes

C1_Witness ==
    /\ fn = "par_is_prime"
    /\ arg = 9973
    /\ ret = TRUE

\* C2: find_primes_up_to(limit) is exactly the primes p with 2 <= p <= limit,
\* strictly ascending (so duplicate-free), every element passing is_prime,
\* none missing, and empty when limit < 2.
C2_FindPrimesUpToExact ==
    fn = "find_primes_up_to" =>
        /\ StrictlyAscending(ret)
        /\ \A i \in 1..Len(ret) : is_prime(ret[i]) /\ 2 <= ret[i] /\ ret[i] <= arg
        /\ Elems(ret) = {p \in SievePrimes : p <= arg}
        /\ arg < 2 => ret = <<>>

C2_Witness ==
    /\ fn = "find_primes_up_to"
    /\ arg = 10
    /\ ret = <<2, 3, 5, 7>>

(***************************************************************************)
(* SpecFirstN: find_n_primes (prime_finder.py) and find_n_primes_parallel  *)
(* (src/prime_finder_parallel.py), one loop iteration per step.            *)
(***************************************************************************)
InitFirstN ==
    /\ routine \in {"find_n_primes", "find_n_primes_parallel"}
    /\ count \in 0..MaxCount
    /\ num_processes \in (IF routine = "find_n_primes" THEN {1} ELSE WorkerCounts)
    /\ primes = <<>> /\ num = 0 /\ upper_bound = 0 /\ scans = 0
    /\ loop_pc = "entry" /\ result = None
    /\ OracleIdle /\ PoolIdle /\ StoreIdle /\ RunIdle

\* primes = []; num = 2
FindNPrimesEntryFrom3 ==
    /\ routine = "find_n_primes" /\ loop_pc = "entry"
    /\ primes' = <<>>
    /\ num' = 3
    /\ loop_pc' = "loop"
    /\ UNCHANGED <<routine, count, upper_bound, scans, result, oracleVars, poolVars, num_processes, storeVars, runVars>>

FindNPrimesEntry ==
    /\ routine = "find_n_primes" /\ loop_pc = "entry"
    /\ primes' = <<>>
    /\ num' = 2
    /\ loop_pc' = "loop"
    /\ UNCHANGED <<routine, count, upper_bound, scans, result, oracleVars, poolVars, num_processes, storeVars, runVars>>

\* while len(primes) < count: one iteration
FindNPrimesIterate ==
    /\ routine = "find_n_primes" /\ loop_pc = "loop"
    /\ Len(primes) < count
    /\ primes' = IF is_prime(num) THEN Append(primes, num) ELSE primes
    /\ num' = num + 1
    /\ UNCHANGED <<routine, count, upper_bound, scans, loop_pc, result, oracleVars, poolVars, num_processes, storeVars, runVars>>

\* return primes
FindNPrimesReturn ==
    /\ routine = "find_n_primes" /\ loop_pc = "loop"
    /\ ~(Len(primes) < count)
    /\ result' = primes
    /\ loop_pc' = "done"
    /\ UNCHANGED <<routine, count, primes, num, upper_bound, scans, oracleVars, poolVars, num_processes, storeVars, runVars>>

\* The early returns and the first bound.
FindNPrimesParallelEntry ==
    /\ routine = "find_n_primes_parallel" /\ loop_pc = "entry"
    /\ IF count = 0
       THEN result' = <<>> /\ loop_pc' = "done" /\ UNCHANGED upper_bound
       ELSE IF count = 1
       THEN result' = <<2>> /\ loop_pc' = "done" /\ UNCHANGED upper_bound
       ELSE /\ upper_bound' = IF count < 6 THEN 15 ELSE upper_bound_estimate(count)
            /\ loop_pc' = "loop"
            /\ UNCHANGED result
    /\ UNCHANGED <<routine, count, primes, num, scans, oracleVars, poolVars, num_processes, storeVars, runVars>>

\* while True: primes = find_primes_up_to_parallel(upper_bound, num_processes)
FindNPrimesParallelScan ==
    /\ routine = "find_n_primes_parallel" /\ loop_pc = "loop"
    /\ primes' = find_primes_up_to_parallel(upper_bound, num_processes)
    /\ scans' = scans + 1
    /\ loop_pc' = "scanned"
    /\ UNCHANGED <<routine, count, num, upper_bound, result, oracleVars, poolVars, num_processes, storeVars, runVars>>

\* The check of the scan without the cut to the first count primes (mutant).
FindNPrimesParallelCheckUncut ==
    /\ routine = "find_n_primes_parallel" /\ loop_pc = "scanned"
    /\ IF Len(primes) >= count
       THEN result' = primes /\ loop_pc' = "done" /\ UNCHANGED upper_bound
       ELSE upper_bound' = expand_bound(upper_bound) /\ loop_pc' = "loop" /\ UNCHANGED result
    /\ UNCHANGED <<routine, count, primes, num, scans, oracleVars, poolVars, num_processes, storeVars, runVars>>

\* if len(primes) >= count: return primes[:count]; else expand the bound.
FindNPrimesParallelCheck ==
    /\ routine = "find_n_primes_parallel" /\ loop_pc = "scanned"
    /\ IF Len(primes) >= count
       THEN /\ result' = SubSeq(primes, 1, count)
            /\ loop_pc' = "done"
            /\ UNCHANGED upper_bound
       ELSE /\ upper_bound' = expand_bound(upper_bound)
            /\ loop_pc' = "loop"
            /\ UNCHANGED result
    /\ UNCHANGED <<routine, count, primes, num, scans, oracleVars, poolVars, num_processes, storeVars, runVars>>

NextFirstN ==
    \/ FindNPrimesEntry
    \/ FindNPrimesIterate
    \/ FindNPrimesReturn
    \/ FindNPrimesParallelEntry
    \/ FindNPrimesParallelScan
    \/ FindNPrimesParallelCheck

\* Both routines run on one thread that nothing else can stop.
SpecFirstN == InitFirstN /\ [][NextFirstN]_vars /\ WF_vars(NextFirstN)

\* s is the k smallest primes, ascending.
SmallestPrimes(s, k) ==
    /\ Len(s) = k
    /\ StrictlyAscending(s)
    /\ \A i \in 1..Len(s) : IsPrimeByDefinition(s[i])
    /\ k > 0 => Elems(s) = {p \in 2..s[k] : IsPrimeByDefinition(p)}

\* C3: for every count >= 0, find_n_primes(count) terminates, and what it
\* returns is the count smallest primes in strictly ascending order
\* ([] for 0, [2] for 1, [2,3,5,7,11] for 5).
C3_FindNPrimes ==
    /\ (routine = "find_n_primes") => <>(loop_pc = "done")
    /\ [](routine = "find_n_primes" /\ loop_pc = "done" =>
            /\ SmallestPrimes(result, count)
            /\ result = find_n_primes(count)
            /\ count = 0 => result = <<>>
            /\ count = 1 => result = <<2>>
            /\ count = 5 => result = <<2, 3, 5, 7, 11>>)

C3_Witness ==
    /\ routine = "find_n_primes" /\ loop_pc = "done"
    /\ count = 5 /\ result = <<2, 3, 5, 7, 11>>

\* C6: for every count >= 0 and every worker count,
\* find_n_primes_parallel(count, workers) returns the list
\* find_n_primes(count) returns, the first count primes.
C6_ParallelFirstN ==
    (routine = "find_n_primes_parallel" /\ loop_pc = "done") =>
        /\ result = find_n_primes(count)
        /\ SmallestPrimes(result, count)

C6_Witness ==
    /\ routine = "find_n_primes_parallel" /\ loop_pc = "done"
    /\ num_processes = 4 /\ count = 7 /\ scans = 1
    /\ result = <<2, 3, 5, 7, 11, 13, 17>>

(***************************************************************************)
(* SpecPool: one call of find_primes_up_to_parallel.  The pool's workers   *)
(* take the chunks of the task queue in order and finish them in any       *)
(* order; the caller waits until every chunk has arrived.                  *)
(***************************************************************************)
InitPool ==
    /\ limit \in (-1)..MaxParLimit
    /\ num_processes \in WorkerCounts
    /\ pool_pc = "call"
    /\ next_task = 1
    /\ inflight = {}
    /\ arrived = <<>>
    /\ par_primes = None
    /\ OracleIdle /\ FirstNIdle /\ StoreIdle /\ RunIdle

\* The chunks of this call's map.
PoolChunks == num_chunks(Len(work_items(limit)), num_processes)

\* if limit < 2: return []; else build the work items and start the map.
PoolCall ==
    /\ pool_pc = "call"
    /\ IF limit < 2
       THEN par_primes' = <<>> /\ pool_pc' = "done"
       ELSE pool_pc' = "map" /\ UNCHANGED par_primes
    /\ UNCHANGED <<limit, next_task, inflight, arrived>>
    /\ UNCHANGED <<oracleVars, firstNVars, num_processes, storeVars, runVars>>

\* An idle worker takes the next chunk of the task queue.
WorkerTake ==
    /\ pool_pc = "map"
    /\ Cardinality(inflight) < num_processes
    /\ next_task <= PoolChunks
    /\ inflight' = inflight \cup {next_task}
    /\ next_task' = next_task + 1
    /\ UNCHANGED <<limit, pool_pc, arrived, par_primes>>
    /\ UNCHANGED <<oracleVars, firstNVars, num_processes, storeVars, runVars>>

\* A worker finishes its chunk and hands back the chunk's results.
WorkerFinish ==
    /\ pool_pc = "map"
    /\ \E c \in inflight :
        /\ inflight' = inflight \ {c}
        /\ arrived' = Append(arrived,
               <<c, map_chunk(chunk_items(work_items(limit), num_processes, c))>>)
    /\ UNCHANGED <<limit, pool_pc, next_task, par_primes>>
    /\ UNCHANGED <<oracleVars, firstNVars, num_processes, storeVars, runVars>>

\* Every chunk has arrived: pool.map returns, the primes are filtered out.
PoolReturnByArrival ==
    /\ pool_pc = "map"
    /\ Len(arrived) = PoolChunks
    /\ par_primes' = filter_primes(merge_by_arrival(arrived, PoolChunks))
    /\ pool_pc' = "done"
    /\ UNCHANGED <<limit, next_task, inflight, arrived>>
    /\ UNCHANGED <<oracleVars, firstNVars, num_processes, storeVars, runVars>>

\* pool.map returns once the task queue is empty, while workers still run
\* (mutant).
PoolReturnQueueEmpty ==
    /\ pool_pc = "map"
    /\ next_task > PoolChunks
    /\ par_primes' = find_primes_up_to_parallel(limit, num_processes)
    /\ pool_pc' = "done"
    /\ UNCHANGED <<limit, next_task, inflight, arrived>>
    /\ UNCHANGED <<oracleVars, firstNVars, num_processes, storeVars, runVars>>

PoolReturn ==
    /\ pool_pc = "map"
    /\ Len(arrived) = PoolChunks
    /\ par_primes' = filter_primes(merge_results(arrived, PoolChunks))
    /\ pool_pc' = "done"
    /\ UNCHANGED <<limit, next_task, inflight, arrived>>
    /\ UNCHANGED <<oracleVars, firstNVars, num_processes, storeVars, runVars>>

NextPool == PoolCall \/ WorkerTake \/ WorkerFinish \/ PoolReturn

SpecPool == InitPool /\ [][NextPool]_vars

\* The chunk indexes in their order of arrival.
ArrivalOrder == [i \in 1..Len(arrived) |-> arrived[i][1]]

\* C4: for every limit and every worker count in {1, 2, 4, 8} the parallel
\* scanner returns the list the sequential scanner returns.
C4_ParallelEqualsSequential ==
    pool_pc = "done" =>
        /\ par_primes = find_primes_up_to(limit)
        /\ par_primes = find_primes_up_to_parallel(limit, num_processes)

C4_Witness ==
    /\ pool_pc = "done" /\ limit = MaxParLimit /\ num_processes = 8
    /\ par_primes = find_primes_up_to(limit) /\ Len(par_primes) >= 4

\* C5: whatever order the workers finish in, the returned list is in
\* ascending numeric order: results are merged by position, not by arrival.
C5_AscendingUnderEveryInterleaving ==
    pool_pc = "done" => StrictlyAscending(par_primes)

\* A finished call whose chunks did not arrive in order.
C5_Witness ==
    /\ pool_pc = "done" /\ Len(par_primes) >= 3
    /\ ~StrictlyAscending(ArrivalOrder)
    /\ StrictlyAscending(par_primes)

(***************************************************************************)
(* SpecStore: one store's file under saves, taken chunk by chunk, saves    *)
(* that are interrupted, and loads made at any moment by a reader (the     *)
(* next run, or a run started beside this one).                            *)
(***************************************************************************)
\* The values the tests save (test_save_checkpoint, test_checkpoint_roundtrip).
SaveCounts == {0, 1000, 2500}
SaveElapsed == {123, 150}
SaveStamps == {1234567890}

\* What something else may have left in the file: 'not valid json {]' of
\* test_load_checkpoint_corrupted, nothing, bytes that are no UTF-8, a cut
\* checkpoint, JSON that is no record, a record without the fields.
ForeignTexts ==
    { << <<"raw", "not valid json {]">> >>,
      <<>>,
      << <<"bytes", "ff fe">> >>,
      SubSeq(checkpoint_text("benchmark", 1000, 123, 1, 1234567890), 1, 5),
      << int_token(5) >>,
      << <<"sym", "{">>, <<"sym", "}">> >> }

InitStore ==
    /\ store \in Stores
    /\ num_processes \in (IF store = "benchmark_parallel" THEN {4} ELSE {1})
    /\ file \in {Missing} \cup {FileOf(t) : t \in ForeignTexts}
                \cup {FileOf(checkpoint_text(store, 1000, 123, num_processes, 1234567890))}
    /\ save_pc = "idle"
    /\ save_args = <<>> /\ buffer = <<>> /\ saved = <<>>
    /\ previous = Missing
    /\ loaded = NotLoaded
    /\ saves = 0 /\ loads = 0
    /\ OracleIdle /\ FirstNIdle /\ PoolIdle /\ RunIdle

\* The chunks the running save has to write.
SaveChunks == checkpoint_text(store, save_args[1], save_args[2], num_processes, save_args[3])

\* save_checkpoint up to open(CHECKPOINT_FILE, "w"): the dict is built and
\* the file is created or cut to nothing.
SaveBegin ==
    /\ save_pc # "open"
    /\ saves < MaxSaves
    /\ \E c \in SaveCounts, e \in SaveElapsed, t \in SaveStamps :
          save_args' = <<c, e, t>>
    /\ previous' = file
    /\ file' = FileOf(<<>>)
    /\ buffer' = <<>>
    /\ saved' = <<>>
    /\ save_pc' = "open"
    /\ saves' = saves + 1
    /\ UNCHANGED <<store, loaded, loads, oracleVars, firstNVars, poolVars, num_processes, runVars>>

\* json.dump: one fp.write of the next chunk, into the file object's buffer.
SaveWrite ==
    /\ save_pc = "open"
    /\ Len(buffer) < Len(SaveChunks)
    /\ buffer' = Append(buffer, SaveChunks[Len(buffer) + 1])
    /\ UNCHANGED <<store, file, save_pc, save_args, saved, previous, saves, loaded, loads>>
    /\ UNCHANGED <<oracleVars, firstNVars, poolVars, num_processes, runVars>>

\* The with block ends: the buffer is flushed, the file closed, save returns.
SaveClose ==
    /\ save_pc = "open"
    /\ Len(buffer) = Len(SaveChunks)
    /\ file' = FileOf(buffer)
    /\ buffer' = <<>>
    /\ saved' = <<save_args[1], save_args[2]>>
    /\ save_pc' = "idle"
    /\ UNCHANGED <<store, save_args, previous, saves, loaded, loads>>
    /\ UNCHANGED <<oracleVars, firstNVars, poolVars, num_processes, runVars>>

\* KeyboardInterrupt inside the with block: the context manager closes the
\* file, which flushes what was written so far.
SaveInterrupted ==
    /\ save_pc = "open"
    /\ Len(buffer) < Len(SaveChunks)
    /\ file' = FileOf(buffer)
    /\ buffer' = <<>>
    /\ save_pc' = "interrupted"
    /\ UNCHANGED <<store, save_args, saved, previous, saves, loaded, loads>>
    /\ UNCHANGED <<oracleVars, firstNVars, poolVars, num_processes, runVars>>

\* The process is killed inside the with block: the buffer is lost, the
\* file stays as open() left it.
SaveKilled ==
    /\ save_pc = "open"
    /\ buffer' = <<>>
    /\ save_pc' = "killed"
    /\ UNCHANGED <<store, file, save_args, saved, previous, saves, loaded, loads>>
    /\ UNCHANGED <<oracleVars, firstNVars, poolVars, num_processes, runVars>>

\* load_checkpoint, by any reader at any moment.
Load ==
    /\ loads < MaxLoads
    /\ loaded' = load_checkpoint(store, file)
    /\ loads' = loads + 1
    /\ UNCHANGED <<store, file, save_pc, save_args, buffer, saved, previous, saves>>
    /\ UNCHANGED <<oracleVars, firstNVars, poolVars, num_processes, runVars>>

NextStore ==
    \/ SaveBegin
    \/ SaveWrite
    \/ SaveClose
    \/ SaveInterrupted
    \/ SaveKilled
    \/ Load

SpecStore == InitStore /\ [][NextStore]_vars

\* A file that holds a complete checkpoint of its store.
CompleteCheckpoint(f) ==
    /\ f.exists
    /\ json_load(f.text).kind = "return"
    /\ json_load(f.text).type = "dict"
    /\ {"count", "elapsed_time"} \subseteq DOMAIN json_load(f.text).value

\* A file whose content is corrupted: characters that are no valid JSON.
Corrupted(f) ==
    /\ f.exists
    /\ json_load(f.text).kind = "raise"
    /\ json_load(f.text).value = "JSONDecodeError"

\* A step that is a load_checkpoint call.
LoadStep == loads' = loads + 1

\* The checkpoint the last save begun was to write.
NewFile ==
    FileOf(checkpoint_text(store, save_args[1], save_args[2], num_processes, save_args[3]))

\* C7: load_checkpoint returns none and never raises when the file is
\* missing or its content is no valid JSON, in every store.
C7_LoadNeverRaises ==
    [][(LoadStep /\ (~file.exists \/ Corrupted(file))) => loaded' = ReturnNone]_vars

\* C8: a load made after save_checkpoint(c, e) returned gives a record with
\* count c and elapsed_time e: the values of the last save only, whatever
\* the file held before.
C8_RoundTrip ==
    [][(LoadStep /\ save_pc = "idle" /\ saved # <<>>) =>
          /\ loaded'.kind = "return"
          /\ loaded'.type = "dict"
          /\ loaded'.value["count"] = saved[1]
          /\ loaded'.value["elapsed_time"] = saved[2]]_vars

\* A load after the save of (2500, 150) that overwrote a checkpoint of 1000.
C8_Witness ==
    /\ loads > 0 /\ save_pc = "idle" /\ saved = <<2500, 150>>
    /\ CompleteCheckpoint(previous)
    /\ json_load(previous.text).value["count"] = 1000
    /\ loaded.kind = "return" /\ loaded.type = "dict"
    /\ loaded.value["count"] = 2500 /\ loaded.value["elapsed_time"] = 150

\* C9: a load made during a save, or after a save that was interrupted,
\* sees what a load of the complete previous checkpoint (or of no file, when
\* there was none) or of the complete new checkpoint sees, never an empty or
\* partly written file.
C9_SaveIsAtomic ==
    [][(/\ LoadStep
        /\ save_pc \in {"open", "interrupted", "killed"}
        /\ (~previous.exists \/ CompleteCheckpoint(previous))) =>
          \/ loaded' = load_checkpoint(store, previous)
          \/ loaded' = load_checkpoint(store, NewFile)]_vars


(***************************************************************************)
(* SpecRun: one run of main of benchmark.py, of main of                    *)
(* benchmark_parallel.py or of find_primes_with_checkpoint, from its       *)
(* command line to its end, over the checkpoint file of its store.  The    *)
(* clock counts whole seconds; a batch takes one of Durations.             *)
(***************************************************************************)
BatchSize == 2          \* batch_size of the model (1000 in the programs)
DefaultTime == 300      \* --time default, the value the validation tests
ParallelBudget == 300   \* the literal of the while condition
BootTime == 1000        \* time.time() when the run starts

Durations == {100, 200}
CpuCounts == {2, 4}

Programs == {"benchmark", "benchmark_parallel", "prime_finder_checkpoint"}

\* The command lines of benchmark.py: each of --count, --time, --start is
\* absent (<<>>) or given with a value; --resume / --no-resume.
ArgCounts == {<<>>, <<0>>, <<BatchSize + 1>>, <<2 * BatchSize>>}
ArgTimes == {<<>>, <<DefaultTime>>, <<200>>}
ArgStarts == {<<>>, <<0>>, <<0 - BatchSize>>, <<BatchSize>>}
BenchArgs ==
    [count : ArgCounts, time : ArgTimes, start : ArgStarts, resume : BOOLEAN]
\* benchmark_parallel.py reads no arguments.
ParArgs == {[count |-> <<>>, time |-> <<>>, start |-> <<>>, resume |-> TRUE]}
\* find_primes_with_checkpoint(target_count, time_limit=None): count is the
\* target, time the limit (<<>> for None).
FinderArgs ==
    [count : {<<0>>, <<BatchSize + 1>>, <<2 * BatchSize>>},
     time : {<<>>, <<0>>, <<150>>}, start : {<<>>}, resume : {TRUE}]

\* parser.parse_args(): the defaults fill what the command line leaves out.
parse_args(v) ==
    [count |-> v.count,
     time |-> IF v.time = <<>> THEN DefaultTime ELSE v.time[1],
     start |-> IF v.start = <<>> THEN 0 ELSE v.start[1],
     resume |-> v.resume]

\* The checkpoints an earlier run of a program may have left.
LeftCounts == {0, BatchSize, 2 * BatchSize}
LeftElapsed == {100, 350}
LeftCheckpoints(prog) ==
    {checkpoint_text(prog, c, e, np, BootTime - 1) :
        c \in LeftCounts, e \in LeftElapsed,
        np \in (IF prog = "benchmark_parallel" THEN {1, 2} ELSE {1})}
\* A record with count and elapsed_time and no num_processes.
NoProcessesText == checkpoint_text("benchmark", BatchSize, 100, 1, BootTime - 1)

\* bool(x) of what load_checkpoint returned.
truthy(got) ==
    CASE got.type = "None" -> FALSE
      [] got.type = "dict" -> DOMAIN got.value # {}
      [] got.type = "number" -> got.value # 0

\* bool(args.count)
count_given(a) == a.count # <<>> /\ a.count[1] # 0

\* start_count = checkpoint["count"] if checkpoint else args.start, on a
\* checkpoint that is a record with a count.
resolve_start_count(got, start) ==
    IF truthy(got) THEN got.value["count"] ELSE start

\* The exception the subscripts checkpoint[k], k in keys, raise, or None.
subscript_error(got, keys) ==
    IF ~truthy(got) THEN None
    ELSE IF got.type # "dict" THEN "TypeError"
    ELSE IF ~(keys \subseteq DOMAIN got.value) THEN "KeyError"
    ELSE None

InitRun ==
    /\ program \in Programs
    /\ store = program
    /\ argv \in (CASE program = "benchmark" -> BenchArgs
                   [] program = "benchmark_parallel" -> ParArgs
                   [] program = "prime_finder_checkpoint" -> FinderArgs)
    /\ args = NoArgs
    /\ num_processes \in (IF program = "benchmark_parallel" THEN CpuCounts ELSE {1})
    /\ file \in {Missing} \cup {FileOf(t) : t \in ForeignTexts}
                \cup {FileOf(t) : t \in LeftCheckpoints(program)}
                \cup (IF program = "benchmark_parallel"
                      THEN {FileOf(NoProcessesText)} ELSE {})
    /\ run_pc = "parse" /\ mode = None /\ checkpoint = NotLoaded
    /\ start_count = 0 /\ start_time = 0 /\ now = BootTime
    /\ cur_count = 0 /\ cur_primes = <<>> /\ elapsed = 0 /\ batches = 0
    /\ error = None
    /\ save_pc = "idle" /\ save_args = <<>> /\ buffer = <<>> /\ saved = <<>>
    /\ previous = Missing /\ loaded = NotLoaded /\ saves = 0 /\ loads = 0
    /\ OracleIdle /\ FirstNIdle /\ PoolIdle

\* The run stops with an exception or an exit code.
Fails(exc) == run_pc' = "error" /\ error' = exc

\* benchmark.py, parse_args and "Validate arguments": --count with a --time
\* other than the default is refused.
BenchValidate ==
    /\ program = "benchmark" /\ run_pc = "parse"
    /\ args' = parse_args(argv)
    /\ IF count_given(args') /\ args'.time # DefaultTime
       THEN Fails("SystemExit")
       ELSE run_pc' = "init" /\ UNCHANGED error
    /\ UNCHANGED <<program, argv, mode, checkpoint, start_count, start_time, now,
                   cur_count, cur_primes, elapsed, batches>>
    /\ UNCHANGED <<oracleVars, firstNVars, poolVars, num_processes, storeVars>>

\* benchmark.py, "Determine start state" down to the loop.
BenchInit ==
    /\ program = "benchmark" /\ run_pc = "init"
    /\ LET reads == args.resume /\ args.start = 0
           got == IF reads THEN load_checkpoint_bench(file) ELSE ReturnNone
       IN  /\ loads' = IF reads THEN loads + 1 ELSE loads
           /\ loaded' = IF reads THEN got ELSE loaded
           /\ IF got.kind = "raise"
              THEN /\ Fails(got.value)
                   /\ UNCHANGED <<checkpoint, start_count, start_time, cur_count, mode>>
              ELSE IF subscript_error(got, {"count", "elapsed_time"}) # None
              THEN /\ Fails(subscript_error(got, {"count", "elapsed_time"}))
                   /\ checkpoint' = got
                   /\ UNCHANGED <<start_count, start_time, cur_count, mode>>
              ELSE /\ checkpoint' = got
                   /\ start_count' = resolve_start_count(got, args.start)
                   /\ start_time' =
                         now - (IF truthy(got) THEN got.value["elapsed_time"] ELSE 0)
                   /\ cur_count' = start_count'
                   /\ mode' = IF count_given(args) THEN "count" ELSE "time"
                   /\ run_pc' = "loop"
                   /\ UNCHANGED error
    /\ UNCHANGED <<program, argv, args, now, cur_primes, elapsed, batches>>
    /\ UNCHANGED <<store, file, save_pc, save_args, buffer, saved, previous, saves>>
    /\ UNCHANGED <<oracleVars, firstNVars, poolVars, num_processes>>

\* A save that records the count stepped by a whole batch, whatever the
\* iteration made of it (mutant).
RunSavesSteppedCount(cnt, secs, t) ==
    /\ file' = FileOf(checkpoint_text(store, cur_count + BatchSize, secs, num_processes, t))
    /\ saved' = <<cur_count + BatchSize, secs>>
    /\ saves' = saves + 1
    /\ UNCHANGED <<store, save_pc, save_args, buffer, previous, loaded, loads>>

\* save_checkpoint as the run calls it: the whole call, at the clock t.
RunSaves(cnt, secs, t) ==
    /\ file' = FileOf(checkpoint_text(store, cnt, secs, num_processes, t))
    /\ saved' = <<cnt, secs>>
    /\ saves' = saves + 1
    /\ UNCHANGED <<store, save_pc, save_args, buffer, previous, loaded, loads>>

\* One iteration of while True that saves in count mode too (mutant).
BenchBatchSavesInCountMode ==
    /\ program = "benchmark" /\ run_pc = "loop"
    /\ \E d \in Durations :
          LET stepped == cur_count + BatchSize
              cnt == IF mode = "count" /\ stepped >= args.count[1]
                     THEN args.count[1] ELSE stepped
              found == find_n_primes(cnt)
              t == now + d
              secs == t - start_time
          IN  /\ cur_count' = cnt
              /\ cur_primes' = found
              /\ now' = t
              /\ elapsed' = secs
              /\ batches' = batches + 1
              /\ RunSaves(cnt, secs, t)
              /\ IF found = <<>> THEN Fails("IndexError")
                 ELSE /\ run_pc' = IF (mode = "count" /\ cnt >= args.count[1])
                                      \/ (mode = "time" /\ secs >= args.time)
                                   THEN "summary" ELSE "loop"
                      /\ UNCHANGED error
    /\ UNCHANGED <<program, argv, args, mode, checkpoint, start_count, start_time>>
    /\ UNCHANGED <<oracleVars, firstNVars, poolVars, num_processes>>

\* One iteration of while True that stops in time mode only once the
\* elapsed time is above the budget (mutant).
BenchBatchStopsAboveBudget ==
    /\ program = "benchmark" /\ run_pc = "loop"
    /\ \E d \in Durations :
          LET stepped == cur_count + BatchSize
              cnt == IF mode = "count" /\ stepped >= args.count[1]
                     THEN args.count[1] ELSE stepped
              found == find_n_primes(cnt)
              t == now + d
              secs == t - start_time
          IN  /\ cur_count' = cnt
              /\ cur_primes' = found
              /\ now' = t
              /\ elapsed' = secs
              /\ batches' = batches + 1
              /\ IF mode = "count"
                 THEN /\ UNCHANGED storeVars
                      /\ IF found = <<>> THEN Fails("IndexError")
                         ELSE /\ run_pc' = IF cnt >= args.count[1]
                                           THEN "summary" ELSE "loop"
                              /\ UNCHANGED error
                 ELSE /\ RunSaves(cnt, secs, t)
                      /\ IF found = <<>> THEN Fails("IndexError")
                         ELSE /\ run_pc' = IF secs > args.time
                                           THEN "summary" ELSE "loop"
                              /\ UNCHANGED error
    /\ UNCHANGED <<program, argv, args, mode, checkpoint, start_count, start_time>>
    /\ UNCHANGED <<oracleVars, firstNVars, poolVars, num_processes>>

\* benchmark.py, one iteration of while True.
BenchBatch ==
    /\ program = "benchmark" /\ run_pc = "loop"
    /\ \E d \in Durations :
          LET stepped == cur_count + BatchSize
              cnt == IF mode = "count" /\ stepped >= args.count[1]
                     THEN args.count[1] ELSE stepped
              found == find_n_primes(cnt)
              t == now + d
              secs == t - start_time
          IN  /\ cur_count' = cnt
              /\ cur_primes' = found
              /\ now' = t
              /\ elapsed' = secs
              /\ batches' = batches + 1
              /\ IF mode = "count"
                 THEN /\ UNCHANGED storeVars
                      /\ IF found = <<>> THEN Fails("IndexError")
                         ELSE /\ run_pc' = IF cnt >= args.count[1]
                                           THEN "summary" ELSE "loop"
                              /\ UNCHANGED error
                 ELSE /\ RunSaves(cnt, secs, t)
                      /\ IF found = <<>> THEN Fails("IndexError")
                         ELSE /\ run_pc' = IF secs >= args.time
                                           THEN "summary" ELSE "loop"
                              /\ UNCHANGED error
    /\ UNCHANGED <<program, argv, args, mode, checkpoint, start_count, start_time>>
    /\ UNCHANGED <<oracleVars, firstNVars, poolVars, num_processes>>

\* The end of a run that removes the checkpoint in count mode only (mutant).
BenchSummaryClearsInCountMode ==
    /\ program = "benchmark" /\ run_pc = "summary"
    /\ elapsed' = now - start_time
    /\ IF elapsed' = 0
       THEN Fails("ZeroDivisionError") /\ UNCHANGED file
       ELSE /\ run_pc' = "done"
            /\ file' = IF mode = "count" /\ file.exists THEN Missing ELSE file
            /\ UNCHANGED error
    /\ UNCHANGED <<program, argv, args, mode, checkpoint, start_count, start_time, now,
                   cur_count, cur_primes, batches>>
    /\ UNCHANGED <<store, save_pc, save_args, buffer, saved, previous, saves, loaded, loads>>
    /\ UNCHANGED <<oracleVars, firstNVars, poolVars, num_processes>>

\* benchmark.py after the loop: the summary, then the checkpoint is removed
\* when the mode is "time" and the file exists.
BenchSummary ==
    /\ program = "benchmark" /\ run_pc = "summary"
    /\ elapsed' = now - start_time
    /\ IF elapsed' = 0
       THEN Fails("ZeroDivisionError") /\ UNCHANGED file
       ELSE /\ run_pc' = "done"
            /\ file' = IF mode = "time" /\ file.exists THEN Missing ELSE file
            /\ UNCHANGED error
    /\ UNCHANGED <<program, argv, args, mode, checkpoint, start_count, start_time, now,
                   cur_count, cur_primes, batches>>
    /\ UNCHANGED <<store, save_pc, save_args, buffer, saved, previous, saves, loaded, loads>>
    /\ UNCHANGED <<oracleVars, firstNVars, poolVars, num_processes>>

\* benchmark_parallel.py, main down to the loop.  The program has one mode,
\* the time-bounded one.
ParInit ==
    /\ program = "benchmark_parallel" /\ run_pc = "parse"
    /\ LET got == load_checkpoint_bench(file)
           keys == {"count", "elapsed_time", "num_processes"}
       IN  /\ loads' = loads + 1
           /\ loaded' = got
           /\ IF got.kind = "raise"
              THEN /\ Fails(got.value)
                   /\ UNCHANGED <<checkpoint, start_count, start_time, cur_count,
                                  mode, num_processes>>
              ELSE /\ checkpoint' = got
                   /\ IF subscript_error(got, {"count"}) # None
                      THEN /\ Fails(subscript_error(got, {"count"}))
                           /\ UNCHANGED <<start_count, start_time, cur_count, mode,
                                          num_processes>>
                      ELSE /\ start_count' = resolve_start_count(got, 0)
                           /\ start_time' = now
                           /\ num_processes' =
                                 IF truthy(got) /\ "num_processes" \in DOMAIN got.value
                                 THEN got.value["num_processes"] ELSE num_processes
                           /\ IF subscript_error(got, keys) # None
                              THEN /\ Fails(subscript_error(got, keys))
                                   /\ UNCHANGED <<cur_count, mode>>
                              ELSE /\ cur_count' = start_count'
                                   /\ mode' = "time"
                                   /\ run_pc' = "loop"
                                   /\ UNCHANGED error
    /\ UNCHANGED <<program, argv, args, now, cur_primes, elapsed, batches>>
    /\ UNCHANGED <<store, file, save_pc, save_args, buffer, saved, previous, saves>>
    /\ UNCHANGED <<oracleVars, firstNVars, poolVars>>

\* An iteration that keeps only the primes its batch added (mutant).
ParBatchKeepsNewOnly ==
    /\ program = "benchmark_parallel" /\ run_pc = "loop"
    /\ now - start_time < ParallelBudget
    /\ \E d \in Durations :
          LET cnt == cur_count + BatchSize
              t == now + d
              secs == t - start_time
          IN  /\ cur_count' = cnt
              /\ cur_primes' = SubSeq(find_n_primes_parallel(cnt, num_processes),
                                      cur_count + 1, cnt)
              /\ now' = t
              /\ elapsed' = secs
              /\ batches' = batches + 1
              /\ RunSaves(cnt, secs, t)
    /\ UNCHANGED <<program, argv, args, run_pc, mode, checkpoint, start_count, start_time, error>>
    /\ UNCHANGED <<oracleVars, firstNVars, poolVars, num_processes>>

\* benchmark_parallel.py, one iteration of the while loop.
ParBatch ==
    /\ program = "benchmark_parallel" /\ run_pc = "loop"
    /\ now - start_time < ParallelBudget
    /\ \E d \in Durations :
          LET cnt == cur_count + BatchSize
              t == now + d
              secs == t - start_time
          IN  /\ cur_count' = cnt
              /\ cur_primes' = find_n_primes_parallel(cnt, num_processes)
              /\ now' = t
              /\ elapsed' = secs
              /\ batches' = batches + 1
              /\ RunSaves(cnt, secs, t)
    /\ UNCHANGED <<program, argv, args, run_pc, mode, checkpoint, start_count, start_time, error>>
    /\ UNCHANGED <<oracleVars, firstNVars, poolVars, num_processes>>

\* benchmark_parallel.py, an iteration in whose scan a worker fails: an
\* exception in a worker is raised again by pool.map in the parent and
\* nothing catches it; a worker process that dies takes its task with it
\* and pool.map waits for the result for ever.
ParBatchWorkerFails ==
    /\ program = "benchmark_parallel" /\ run_pc = "loop"
    /\ now - start_time < ParallelBudget
    /\ \E d \in Durations, how \in {"raises", "dies"} :
          /\ cur_count' = cur_count + BatchSize
          /\ now' = now + d
          /\ IF how = "raises"
             THEN Fails("MemoryError")
             ELSE run_pc' = "hung" /\ UNCHANGED error
    /\ UNCHANGED <<program, argv, args, mode, checkpoint, start_count, start_time,
                   cur_primes, elapsed, batches>>
    /\ UNCHANGED <<oracleVars, firstNVars, poolVars, num_processes, storeVars>>

\* benchmark_parallel.py once the while condition is false: the summary,
\* then the checkpoint is removed when the file exists.
ParSummary ==
    /\ program = "benchmark_parallel" /\ run_pc = "loop"
    /\ ~(now - start_time < ParallelBudget)
    /\ elapsed' = now - start_time
    /\ IF elapsed' = 0
       THEN Fails("ZeroDivisionError") /\ UNCHANGED file
       ELSE /\ run_pc' = "done"
            /\ file' = IF file.exists THEN Missing ELSE file
            /\ UNCHANGED error
    /\ UNCHANGED <<program, argv, args, mode, checkpoint, start_count, start_time, now,
                   cur_count, cur_primes, batches>>
    /\ UNCHANGED <<store, save_pc, save_args, buffer, saved, previous, saves, loaded, loads>>
    /\ UNCHANGED <<oracleVars, firstNVars, poolVars, num_processes>>

\* find_primes_with_checkpoint: its parameters.
target_count == argv.count[1]
\* The test without `time_limit and`: a limit of 0 is a limit (mutant).
time_limit_hit_at_zero ==
    /\ argv.time # <<>>
    /\ now - start_time > argv.time[1]

\* if time_limit and (time.time() - start_time) > time_limit
time_limit_hit ==
    /\ argv.time # <<>>
    /\ argv.time[1] # 0
    /\ now - start_time > argv.time[1]
\* The count stepped and never capped (mutant).
min_uncapped(a, b) == a

min(a, b) == IF a <= b THEN a ELSE b

\* find_primes_with_checkpoint down to the loop.  The run is bounded by
\* its target count.
FinderInit ==
    /\ program = "prime_finder_checkpoint" /\ run_pc = "parse"
    /\ LET got == load_checkpoint_finder(file)
       IN  /\ loads' = loads + 1
           /\ loaded' = got
           /\ IF got.kind = "raise"
              THEN /\ Fails(got.value)
                   /\ UNCHANGED <<checkpoint, start_count, start_time, cur_count, mode>>
              ELSE /\ checkpoint' = got
                   /\ start_count' = resolve_start_count(got, 0)
                   /\ start_time' = now
                   /\ cur_count' = start_count'
                   /\ mode' = "count"
                   /\ run_pc' = "loop"
                   /\ UNCHANGED error
    /\ UNCHANGED <<program, argv, args, now, cur_primes, elapsed, batches>>
    /\ UNCHANGED <<store, file, save_pc, save_args, buffer, saved, previous, saves>>
    /\ UNCHANGED <<oracleVars, firstNVars, poolVars, num_processes>>

\* The time limit found exceeded at the top of the loop: save, sys.exit(0).
FinderTimeout ==
    /\ program = "prime_finder_checkpoint" /\ run_pc = "loop"
    /\ cur_count < target_count
    /\ time_limit_hit
    /\ elapsed' = now - start_time
    /\ RunSaves(cur_count, elapsed', now)
    /\ run_pc' = "timeout"
    /\ UNCHANGED <<program, argv, args, mode, checkpoint, start_count, start_time, now,
                   cur_count, cur_primes, batches, error>>
    /\ UNCHANGED <<oracleVars, firstNVars, poolVars, num_processes>>

\* An iteration that scans only for the primes beyond the start count
\* (mutant).
FinderBatchBeyondStart ==
    /\ program = "prime_finder_checkpoint" /\ run_pc = "loop"
    /\ cur_count < target_count
    /\ ~time_limit_hit
    /\ \E d \in Durations :
          LET cnt == min(cur_count + BatchSize, target_count)
              found == find_n_primes(cnt - start_count)
              t == now + d
              secs == t - start_time
          IN  /\ cur_count' = cnt
              /\ cur_primes' = found
              /\ now' = t
              /\ elapsed' = secs
              /\ batches' = batches + 1
              /\ RunSaves(cnt, secs, t)
              /\ IF found = <<>> THEN Fails("IndexError")
                 ELSE UNCHANGED <<run_pc, error>>
    /\ UNCHANGED <<program, argv, args, mode, checkpoint, start_count, start_time>>
    /\ UNCHANGED <<oracleVars, firstNVars, poolVars, num_processes>>

\* find_primes_with_checkpoint, one iteration of the while loop past the
\* time check.
FinderBatch ==
    /\ program = "prime_finder_checkpoint" /\ run_pc = "loop"
    /\ cur_count < target_count
    /\ ~time_limit_hit
    /\ \E d \in Durations :
          LET cnt == min(cur_count + BatchSize, target_count)
              found == find_n_primes(cnt)
              t == now + d
              secs == t - start_time
          IN  /\ cur_count' = cnt
              /\ cur_primes' = found
              /\ now' = t
              /\ elapsed' = secs
              /\ batches' = batches + 1
              /\ RunSaves(cnt, secs, t)
              /\ IF found = <<>> THEN Fails("IndexError")
                 ELSE UNCHANGED <<run_pc, error>>
    /\ UNCHANGED <<program, argv, args, mode, checkpoint, start_count, start_time>>
    /\ UNCHANGED <<oracleVars, firstNVars, poolVars, num_processes>>

\* find_primes_with_checkpoint once count >= target_count: the summary reads
\* the local primes, which no iteration has bound when none ran; then the
\* checkpoint is removed when the file exists.
FinderSummary ==
    /\ program = "prime_finder_checkpoint" /\ run_pc = "loop"
    /\ ~(cur_count < target_count)
    /\ elapsed' = now - start_time
    /\ IF batches = 0
       THEN Fails("UnboundLocalError") /\ UNCHANGED file
       ELSE /\ run_pc' = "done"
            /\ file' = IF file.exists THEN Missing ELSE file
            /\ UNCHANGED error
    /\ UNCHANGED <<program, argv, args, mode, checkpoint, start_count, start_time, now,
                   cur_count, cur_primes, batches>>
    /\ UNCHANGED <<store, save_pc, save_args, buffer, saved, previous, saves, loaded, loads>>
    /\ UNCHANGED <<oracleVars, firstNVars, poolVars, num_processes>>

\* The loop of the running program starts another iteration.
loop_runs ==
    /\ run_pc = "loop"
    /\ CASE program = "benchmark" -> TRUE
         [] program = "benchmark_parallel" -> now - start_time < ParallelBudget
         [] program = "prime_finder_checkpoint" ->
                cur_count < target_count /\ ~time_limit_hit

\* The count of that iteration.
batch_count ==
    CASE program = "benchmark" ->
            IF mode = "count" /\ cur_count + BatchSize >= args.count[1]
            THEN args.count[1] ELSE cur_count + BatchSize
      [] program = "benchmark_parallel" -> cur_count + BatchSize
      [] program = "prime_finder_checkpoint" ->
            min(cur_count + BatchSize, target_count)

\* Its primes.
batch_primes(cnt) ==
    IF program = "benchmark_parallel"
    THEN find_n_primes_parallel(cnt, num_processes)
    ELSE find_n_primes(cnt)

\* It calls save_checkpoint.
batch_saves == program # "benchmark" \/ mode = "time"

\* KeyboardInterrupt (or a signal that ends the process) in the loop of any
\* program; no program handles either.  It strikes between two iterations,
\* in an iteration's scan, or inside its save_checkpoint, which leaves the
\* file cut to what had reached it.
RunInterrupt ==
    /\ loop_runs
    /\ \E d \in Durations, at \in {"between", "scan", "save"} :
          LET cnt == batch_count
              t == now + d
              text == checkpoint_text(store, cnt, t - start_time, num_processes, t)
          IN  CASE at = "between" ->
                     UNCHANGED <<cur_count, now, cur_primes, elapsed, batches,
                                 file, saves, previous>>
                [] at = "scan" ->
                     /\ cur_count' = cnt
                     /\ now' = t
                     /\ UNCHANGED <<cur_primes, elapsed, batches, file, saves, previous>>
                [] at = "save" ->
                     /\ batch_saves
                     /\ cur_count' = cnt
                     /\ cur_primes' = batch_primes(cnt)
                     /\ now' = t
                     /\ elapsed' = t - start_time
                     /\ \E k \in 0..(Len(text) - 1) : file' = FileOf(SubSeq(text, 1, k))
                     /\ saves' = saves + 1
                     /\ previous' = file
                     /\ UNCHANGED batches
    /\ run_pc' = "interrupted"
    /\ error' = "KeyboardInterrupt"
    /\ UNCHANGED <<program, argv, args, mode, checkpoint, start_count, start_time>>
    /\ UNCHANGED <<store, save_pc, save_args, buffer, saved, loaded, loads>>
    /\ UNCHANGED <<oracleVars, firstNVars, poolVars, num_processes>>

\* An iteration whose save_checkpoint raises OSError, in open (the file is
\* as it was) or in a write (the file is cut); no program catches it.
RunSaveFails ==
    /\ loop_runs
    /\ batch_saves
    /\ \E d \in Durations, at \in {"open", "write"} :
          LET cnt == batch_count
              t == now + d
              text == checkpoint_text(store, cnt, t - start_time, num_processes, t)
          IN  /\ cur_count' = cnt
              /\ cur_primes' = batch_primes(cnt)
              /\ now' = t
              /\ elapsed' = t - start_time
              /\ batches' = batches + 1
              /\ saves' = saves + 1
              /\ previous' = file
              /\ IF at = "open" THEN UNCHANGED file
                 ELSE \E k \in 0..(Len(text) - 1) : file' = FileOf(SubSeq(text, 1, k))
    /\ Fails("OSError")
    /\ UNCHANGED <<program, argv, args, mode, checkpoint, start_count, start_time>>
    /\ UNCHANGED <<store, save_pc, save_args, buffer, saved, loaded, loads>>
    /\ UNCHANGED <<oracleVars, firstNVars, poolVars, num_processes>>

NextRun ==
    \/ BenchValidate
    \/ BenchInit
    \/ BenchBatch
    \/ BenchSummary
    \/ ParInit
    \/ ParBatch
    \/ ParBatchWorkerFails
    \/ ParSummary
    \/ FinderInit
    \/ FinderTimeout
    \/ FinderBatch
    \/ FinderSummary
    \/ RunInterrupt
    \/ RunSaveFails

SpecRun == InitRun /\ [][NextRun]_vars

\* C10: a time-bounded run (benchmark.py in time mode, benchmark_parallel.py)
\* that ended because its time budget was reached, without interruption or
\* error, has saved a checkpoint in its batches and leaves no checkpoint
\* file: load_checkpoint gives none, and the next run starts from count 0.
C10_TimeRunClearsCheckpoint ==
    (run_pc = "done" /\ mode = "time") =>
        /\ saves >= 1
        /\ ~file.exists
        /\ load_checkpoint(store, file) = ReturnNone
        /\ resolve_start_count(load_checkpoint(store, file), 0) = 0

\* A run of benchmark.py in time mode that resumed from a checkpoint, saved
\* in two batches or more, reached its budget and removed the file.
C10_Witness ==
    /\ program = "benchmark" /\ run_pc = "done" /\ mode = "time"
    /\ truthy(checkpoint) /\ batches >= 2 /\ saves = batches
    /\ saved = <<cur_count, elapsed>> /\ elapsed >= args.time
    /\ ~file.exists

\* C11: a run that stops because its count target was reached (count mode
\* of benchmark.py, find_primes_with_checkpoint reaching target_count) never
\* clears the checkpoint: a file that exists when the target is reached
\* still exists after the run ended.
C11_CountRunKeepsCheckpoint ==
    [][(run_pc' = "done" /\ mode = "count" /\ file.exists) => file'.exists]_vars

\* C12: in count mode benchmark.py never persists progress: no step of the
\* run, over any number of batches, calls save_checkpoint or changes the
\* checkpoint file (its existence and its content stay as they were).
C12_CountModeNeverSaves ==
    [][(program = "benchmark" /\ count_given(parse_args(argv))) =>
          (file' = file /\ saves' = saves /\ saved' = saved)]_vars

\* A count-mode run of benchmark.py that ended after two batches or more
\* beside a checkpoint an earlier run left.
C12_Witness ==
    /\ program = "benchmark" /\ mode = "count" /\ run_pc = "done"
    /\ batches >= 2 /\ cur_count = args.count[1]
    /\ saves = 0 /\ saved = <<>>
    /\ CompleteCheckpoint(file)

\* C13: benchmark.py resolves its starting count as the explicit start
\* value when the caller gives one, without loading the checkpoint even if
\* one exists; otherwise as the checkpoint's count when resume is enabled and
\* a checkpoint exists; otherwise as 0; with resume disabled the checkpoint
\* is never read.
C13_StartCountResolution ==
    [][(program = "benchmark" /\ run_pc = "init") =>
          /\ argv.start # <<>> =>
                /\ file.exists => loads' = loads
                /\ run_pc' = "loop"
                /\ start_count' = argv.start[1]
          /\ ~argv.resume => loads' = loads
          /\ (argv.start = <<>> /\ argv.resume /\ CompleteCheckpoint(file)) =>
                /\ run_pc' = "loop"
                /\ start_count' = json_load(file.text).value["count"]
          /\ (argv.start = <<>> /\ ~(argv.resume /\ file.exists)) =>
                /\ run_pc' = "loop"
                /\ start_count' = 0]_vars

\* A step in which a save_checkpoint call of the run returns.
RunSaveStep ==
    /\ saves' = saves + 1
    /\ run_pc' # "interrupted"
    /\ error' # "OSError"

C15_IdempotentResume ==
    (/\ run_pc \in {"loop", "summary", "done", "timeout"}
     /\ truthy(checkpoint)
     /\ batches >= 1
     /\ cur_count > start_count) =>
        /\ SmallestPrimes(cur_primes, cur_count)
        /\ cur_primes = find_n_primes(cur_count)
        /\ SubSeq(cur_primes, 1, start_count) = find_n_primes(start_count)

\* find_primes_with_checkpoint resumed from a checkpoint of BatchSize primes
\* and run on to its target of 2 * BatchSize.
C15_Witness ==
    /\ program = "prime_finder_checkpoint" /\ run_pc = "done"
    /\ truthy(checkpoint) /\ checkpoint.value["count"] = BatchSize
    /\ start_count = BatchSize /\ cur_count = 2 * BatchSize
    /\ Len(cur_primes) = 2 * BatchSize

\* C16: cancellation takes effect between batches only: when a run ends by
\* a cancellation, a batch that had started has finished and its checkpoint
\* is saved, and the file never holds a partly written checkpoint.
C16_CancelOnlyBetweenBatches ==
    [][run_pc' = "interrupted" =>
          /\ cur_count' # cur_count =>
                /\ Len(cur_primes') = cur_count'
                /\ batch_saves => saved' = <<cur_count', elapsed'>>
          /\ file' # file => CompleteCheckpoint(file')]_vars

\* C17: a benchmark.py run asked for both a target count and a time budget
\* is refused before anything else happens: no batch runs, no checkpoint is
\* read or written, the run does not start.
C17_CountAndTimeRefused ==
    (/\ program = "benchmark"
     /\ argv.count # <<>> /\ argv.count[1] > 0
     /\ argv.time # <<>>) =>
        /\ run_pc \in {"parse", "error"}
        /\ run_pc = "error" => error = "SystemExit"
        /\ batches = 0 /\ loads = 0 /\ saves = 0

\* C18: when save_checkpoint fails with a write error after a batch the run
\* is not aborted: it holds the batch's primes and count and goes on to the
\* next batch or to its summary.
C18_SaveFailureIsAWarning ==
    [][(error' = "OSError" /\ error # "OSError") =>
          /\ run_pc' \in {"loop", "summary"}
          /\ Len(cur_primes') = cur_count']_vars

(***************************************************************************)
(* SpecFanIn: the loop of benchmark_parallel.py with every scan of a batch *)
(* run on its pool, worker by worker (the actions of SpecPool), and with   *)
(* workers that fail: by an exception, which pool.map raises again in the  *)
(* parent, or by the death of the worker process, whose task is lost.      *)
(***************************************************************************)
FanInCounts == {0, BatchSize}
FanInWorkers == {1, 2}

InitFanIn ==
    /\ program = "benchmark_parallel" /\ store = program
    /\ argv \in ParArgs /\ args = NoArgs
    /\ num_processes \in FanInWorkers
    /\ start_count \in FanInCounts
    /\ file = IF start_count = 0 THEN Missing
              ELSE FileOf(checkpoint_text(program, start_count, 100, num_processes,
                                          BootTime - 1))
    /\ checkpoint = load_checkpoint_bench(file) /\ loaded = checkpoint /\ loads = 1
    /\ run_pc = "loop" /\ mode = "time"
    /\ start_time = BootTime /\ now = BootTime
    /\ cur_count = start_count /\ cur_primes = <<>> /\ elapsed = 0 /\ batches = 0
    /\ error = None
    /\ save_pc = "idle" /\ save_args = <<>> /\ buffer = <<>> /\ saved = <<>>
    /\ previous = Missing /\ saves = 0
    /\ routine = "find_n_primes_parallel" /\ count = 0 /\ primes = <<>> /\ num = 0
    /\ upper_bound = 0 /\ scans = 0 /\ loop_pc = "idle" /\ result = None
    /\ PoolIdle /\ OracleIdle

\* A new pool for a scan up to the bound ub.
NewScan(ub) ==
    /\ upper_bound' = ub
    /\ limit' = ub
    /\ pool_pc' = "call"
    /\ next_task' = 1
    /\ inflight' = {}
    /\ arrived' = <<>>
    /\ par_primes' = None

\* while time.time() - start_time < 300: count += batch_size, and
\* find_n_primes_parallel(count, num_processes) down to its first scan.
FanBatchStart ==
    /\ program = "benchmark_parallel" /\ run_pc = "loop" /\ pool_pc = "idle"
    /\ now - start_time < ParallelBudget
    /\ cur_count' = cur_count + BatchSize
    /\ count' = cur_count'
    /\ scans' = 0
    /\ IF count' < 2
       THEN /\ par_primes' = IF count' = 0 THEN <<>> ELSE <<2>>
            /\ pool_pc' = "done"
            /\ UNCHANGED <<upper_bound, limit, next_task, inflight, arrived>>
       ELSE NewScan(IF count' < 6 THEN 15 ELSE upper_bound_estimate(count'))
    /\ UNCHANGED <<routine, primes, num, loop_pc, result>>
    /\ UNCHANGED <<program, argv, args, run_pc, mode, checkpoint, start_count, start_time,
                   now, cur_primes, elapsed, batches, error>>
    /\ UNCHANGED <<oracleVars, num_processes, storeVars>>

\* The scan has returned: with count primes or more the batch is over (the
\* first count are kept, the checkpoint is saved), with fewer the bound is
\* enlarged and scanned again.
FanScanCheck ==
    /\ program = "benchmark_parallel" /\ run_pc = "loop" /\ pool_pc = "done"
    /\ IF Len(par_primes) >= count
       THEN /\ \E d \in Durations :
                  /\ now' = now + d
                  /\ elapsed' = now' - start_time
                  /\ RunSaves(count, elapsed', now')
            /\ cur_primes' = SubSeq(par_primes, 1, count)
            /\ primes' = par_primes
            /\ batches' = batches + 1
            /\ pool_pc' = "idle"
            /\ UNCHANGED <<upper_bound, scans, limit, next_task, inflight, arrived,
                           par_primes>>
       ELSE /\ NewScan(expand_bound(upper_bound))
            /\ scans' = scans + 1
            /\ UNCHANGED <<primes, now, elapsed, cur_primes, batches, storeVars>>
    /\ UNCHANGED <<routine, count, num, loop_pc, result>>
    /\ UNCHANGED <<program, argv, args, run_pc, mode, checkpoint, start_count, start_time,
                   cur_count, error>>
    /\ UNCHANGED <<oracleVars, num_processes>>

\* is_prime_with_num raises in a worker: pool.map raises the exception in
\* the parent, the with block ends the pool, and nothing up to main catches
\* it.
FanWorkerRaises ==
    /\ run_pc = "loop" /\ pool_pc = "map"
    /\ inflight # {}
    /\ pool_pc' = "failed"
    /\ inflight' = {}
    /\ Fails("MemoryError")
    /\ UNCHANGED <<limit, next_task, arrived, par_primes>>
    /\ UNCHANGED <<program, argv, args, mode, checkpoint, start_count, start_time, now,
                   cur_count, cur_primes, elapsed, batches>>
    /\ UNCHANGED <<oracleVars, firstNVars, num_processes, storeVars>>

\* A worker process dies (killed, out of memory): the pool starts another
\* worker in its place, the chunk it had taken is not run again and its
\* result never arrives.
FanWorkerDies ==
    /\ run_pc = "loop" /\ pool_pc = "map"
    /\ \E c \in inflight : inflight' = inflight \ {c}
    /\ UNCHANGED <<limit, pool_pc, next_task, arrived, par_primes>>
    /\ UNCHANGED <<oracleVars, firstNVars, num_processes, storeVars, runVars>>

\* The while condition is false: the summary, then the checkpoint is
\* removed when the file exists.
FanSummary ==
    /\ program = "benchmark_parallel" /\ run_pc = "loop" /\ pool_pc = "idle"
    /\ ~(now - start_time < ParallelBudget)
    /\ elapsed' = now - start_time
    /\ IF elapsed' = 0
       THEN Fails("ZeroDivisionError") /\ UNCHANGED file
       ELSE /\ run_pc' = "done"
            /\ file' = IF file.exists THEN Missing ELSE file
            /\ UNCHANGED error
    /\ UNCHANGED <<program, argv, args, mode, checkpoint, start_count, start_time, now,
                   cur_count, cur_primes, batches>>
    /\ UNCHANGED <<store, save_pc, save_args, buffer, saved, previous, saves, loaded, loads>>
    /\ UNCHANGED <<oracleVars, firstNVars, poolVars, num_processes>>

NextFanIn ==
    \/ FanBatchStart
    \/ PoolCall
    \/ WorkerTake
    \/ WorkerFinish
    \/ PoolReturn
    \/ FanScanCheck
    \/ FanWorkerRaises
    \/ FanWorkerDies
    \/ FanSummary

SpecFanIn == InitFanIn /\ [][NextFanIn]_vars

\* The chunks of the running map whose worker died.
LostChunks ==
    {c \in 1..(next_task - 1) :
        c \notin inflight /\ \A i \in 1..Len(arrived) : arrived[i][1] # c}

\* C19: when a worker fails in the scan of a parallel batch the batch is not
\* partially applied: the scan ends in a failure and gives no prime list,
\* and the primes the run holds and the checkpoint stay those of the last
\* completed batch.
C19_WorkerFailureFailsBatch ==
    /\ pool_pc = "failed" =>
          /\ par_primes = None
          /\ run_pc = "error"
          /\ Len(cur_primes) = (IF batches = 0 THEN 0 ELSE saved[1])
          /\ batches > 0 => json_load(file.text).value["count"] = saved[1]
    /\ (LostChunks # {} /\ inflight = {} /\ next_task > PoolChunks) =>
          pool_pc = "failed"

\* C20: the batches of the parallel search do not overlap: when a scan's
\* pool is started (the first scan of a batch or a scan again with a larger
\* bound) no worker of an earlier scan is running, and when the checkpoint
\* of a batch is saved every chunk of its scan has arrived and no worker is
\* running.
C20_BatchesNeverOverlap ==
    [][/\ pool_pc' = "call" =>
             /\ inflight = {}
             /\ pool_pc \in {"idle", "done"}
             /\ pool_pc = "done" => Len(arrived) = PoolChunks
       /\ saves' = saves + 1 =>
             /\ inflight = {}
             /\ pool_pc = "done"
             /\ Len(arrived) = PoolChunks
             /\ LostChunks = {}]_vars

\* Workers of the third batch at work, after the checkpoints of the first
\* two were saved.
C20_Witness ==
    /\ batches = 2 /\ saves = 2 /\ saved[1] = cur_count - BatchSize
    /\ pool_pc = "map" /\ Cardinality(inflight) >= 2 /\ Len(arrived) >= 1

(***************************************************************************)
(* The batch boundaries, the stop conditions and the elapsed time of the   *)
(* runs of SpecRun.                                                        *)
(***************************************************************************)
\* The run is bounded by a target count, and the target.
CountBounded ==
    \/ program = "prime_finder_checkpoint"
    \/ program = "benchmark" /\ mode = "count"
RunTarget ==
    IF program = "prime_finder_checkpoint" THEN target_count ELSE args.count[1]

\* A step that hands a count to the scanner: an iteration of the loop, also
\* one that is interrupted or whose save fails.
ScanStep ==
    /\ run_pc = "loop"
    /\ batches' # batches \/ cur_count' # cur_count

\* C21: in a count-bounded search (find_primes_with_checkpoint, count mode
\* of benchmark.py) the count of every batch is
\* min(current count + batch size, target), whatever the starting count: it
\* never exceeds the target, and the run ends after a batch at exactly the
\* target.
C21_BatchBoundaryIsCapped ==
    [][(CountBounded /\ ScanStep) =>
          /\ cur_count' = IF cur_count + BatchSize <= RunTarget
                          THEN cur_count + BatchSize ELSE RunTarget
          /\ cur_count' <= RunTarget
          /\ run_pc' \in {"summary", "done"} => cur_count' = RunTarget
          /\ (run_pc' = "loop" /\ program = "benchmark") => cur_count' < RunTarget]_vars

\* A count-mode run of benchmark.py whose second batch was cut to the target
\* BatchSize + 1.
C21_Witness ==
    /\ program = "benchmark" /\ mode = "count" /\ run_pc = "done"
    /\ start_count = 0 /\ batches = 2
    /\ cur_count = BatchSize + 1 /\ args.count[1] = BatchSize + 1
    /\ Len(cur_primes) = BatchSize + 1

\* C22: in time mode of benchmark.py the stop condition is evaluated once
\* per batch, after the batch's checkpoint is saved: a batch that ends with
\* the elapsed time below the budget is followed by another, one that ends
\* with the elapsed time at the budget or above by none, and one batch runs
\* even when the elapsed time resumed from meets the budget.
C22_StopCheckedAfterEachBatch ==
    /\ [][(program = "benchmark" /\ mode = "time" /\ run_pc = "loop"
           /\ batches' = batches + 1 /\ run_pc' \in {"loop", "summary"}) =>
             /\ saved' = <<cur_count', elapsed'>>
             /\ saves' = saves + 1
             /\ run_pc' = IF elapsed' >= args.time THEN "summary" ELSE "loop"]_vars
    /\ [](program = "benchmark" /\ mode = "time" =>
             /\ run_pc \in {"summary", "done"} =>
                   batches >= 1 /\ elapsed >= args.time /\ saves = batches
             /\ (run_pc = "loop" /\ batches >= 1) => elapsed < args.time
             /\ (run_pc = "loop" /\ batches = 0) => ENABLED BenchBatch)

\* A run resumed from a checkpoint whose elapsed time (350) is above the
\* budget: it ran one batch and ended.
C22_Witness ==
    /\ program = "benchmark" /\ mode = "time" /\ run_pc = "done"
    /\ truthy(checkpoint) /\ checkpoint.value["elapsed_time"] >= args.time
    /\ batches = 1 /\ saves = 1
    /\ cur_count = start_count + BatchSize

\* C23: a resumed run starts its elapsed time at the checkpoint's
\* elapsed_time, in benchmark.py, benchmark_parallel.py and
\* find_primes_with_checkpoint: before its first batch the elapsed time is
\* the one resumed from, and no checkpoint it saves holds a smaller one.
C23_ElapsedIsCumulative ==
    /\ [](run_pc = "loop" /\ batches = 0 /\ saves = 0 =>
             now - start_time =
                IF truthy(checkpoint) THEN checkpoint.value["elapsed_time"] ELSE 0)
    /\ [][(run_pc = "loop" /\ truthy(checkpoint) /\ RunSaveStep) =>
             saved'[2] >= checkpoint.value["elapsed_time"]]_vars

\* a is b's beginning.
IsPrefix(a, b) == Len(a) <= Len(b) /\ SubSeq(b, 1, Len(a)) = a

\* C24: within a run the prime sequence grows at its tail only: what the
\* run held before a batch is a prefix of what it holds after it, in all
\* three programs.
C24_PrimesGrowAtTheTail ==
    [][(run_pc = "loop" /\ batches' = batches + 1) =>
          /\ IsPrefix(cur_primes, cur_primes')
          /\ StrictlyAscending(cur_primes')]_vars

\* benchmark_parallel.py after its third batch.
C24_Witness ==
    /\ program = "benchmark_parallel" /\ run_pc = "loop" /\ batches = 3
    /\ cur_count = start_count + 3 * BatchSize
    /\ Len(cur_primes) = cur_count
    /\ SubSeq(cur_primes, 1, cur_count - BatchSize) = find_n_primes(cur_count - BatchSize)

\* The count of batch k of the count-mode run with the same command line and
\* no checkpoint file, and the number of its batches.
RECURSIVE BatchesFrom(_, _)
BatchesFrom(c, target) ==
    IF c + BatchSize >= target THEN 1 ELSE 1 + BatchesFrom(c + BatchSize, target)
CountWithoutCheckpoint(k) ==
    IF args.start + k * BatchSize >= args.count[1]
    THEN args.count[1] ELSE args.start + k * BatchSize

\* C25: a count-mode run of benchmark.py does not depend on the checkpoint
\* file beside it: batch by batch it scans the counts that the run with the
\* same command line and no checkpoint file scans, it makes as many batches
\* and ends with the same primes and count.
C25_IndependentOfCheckpoint ==
    (/\ program = "benchmark" /\ mode = "count"
     /\ run_pc \in {"loop", "summary", "done"}
     /\ batches >= 1) =>
        /\ cur_count = CountWithoutCheckpoint(batches)
        /\ cur_primes = find_n_primes(CountWithoutCheckpoint(batches))
        /\ run_pc \in {"summary", "done"} =>
              batches = BatchesFrom(args.start, args.count[1])

\* C26: when find_primes_with_checkpoint finds its time limit exceeded at
\* the top of the loop it saves the count of the last completed batch, runs
\* no further batch and exits with that checkpoint in place, from which the
\* next call resumes at that count; with a limit of 0 or none it never
\* stops for time.
C26_TimeoutLeavesCheckpoint ==
    /\ [](run_pc = "timeout" =>
             /\ argv.time # <<>> /\ argv.time[1] # 0
             /\ elapsed > argv.time[1]
             /\ cur_count < target_count
             /\ saved = <<cur_count, elapsed>>
             /\ batches >= 1 => Len(cur_primes) = cur_count
             /\ CompleteCheckpoint(file)
             /\ json_load(file.text).value["count"] = cur_count
             /\ resolve_start_count(load_checkpoint_finder(file), 0) = cur_count)
    /\ [][run_pc # "timeout"]_vars
    /\ []((argv.time = <<>> \/ argv.time[1] = 0) => run_pc # "timeout")

\* The run with the limit 150 whose first batch took 200 seconds and did not
\* reach the target.
C26_Witness ==
    /\ program = "prime_finder_checkpoint" /\ run_pc = "timeout"
    /\ argv.time = <<150>> /\ elapsed = 200 /\ batches = 1
    /\ saved = <<cur_count, 200>> /\ file.exists

\* C27: find_primes_with_checkpoint started with its target already reached
\* (the checkpoint's count is the target or above, or the target is 0) runs
\* no batch and ends normally, not in an error.
C27_TargetAlreadyReached ==
    (/\ program = "prime_finder_checkpoint"
     /\ run_pc # "parse"
     /\ loaded.kind = "return"
     /\ start_count >= target_count) =>
        /\ batches = 0
        /\ run_pc \in {"loop", "done"}
        /\ error = None

\* The file parses and is no record with a count and an elapsed_time.
Malformed(f) ==
    /\ f.exists
    /\ json_load(f.text).kind = "return"
    /\ ~CompleteCheckpoint(f)

\* The step in which the run reads its checkpoint.
ReadsCheckpoint ==
    \/ program = "benchmark" /\ run_pc = "init" /\ args.resume /\ args.start = 0
    \/ program \in {"benchmark_parallel", "prime_finder_checkpoint"} /\ run_pc = "parse"

\* C29: a checkpoint that parses and is malformed (JSON that is no record, a
\* record without count or elapsed_time) is taken as no checkpoint: the run
\* starts from count 0 and elapsed 0 and does not fail, in all three
\* programs.
C29_MalformedIsAbsent ==
    [][(ReadsCheckpoint /\ Malformed(file)) =>
          /\ run_pc' = "loop"
          /\ start_count' = 0
          /\ start_time' = now]_vars

(***************************************************************************)
(* The range expansion of find_n_primes_parallel (SpecFirstN).             *)
(***************************************************************************)
\* C28: the loop of find_n_primes_parallel terminates for every count >= 0:
\* it starts at the bound 15 for count < 6 and at the estimate otherwise,
\* the bound a scan is followed by when it falls short is strictly larger
\* (half as much again, cut to an integer), and the loop ends at the first
\* scan that finds count primes or more.
C28_ExpansionTerminates ==
    /\ (routine = "find_n_primes_parallel") => <>(loop_pc = "done")
    /\ [](routine = "find_n_primes_parallel" /\ loop_pc \in {"loop", "scanned"} =>
             /\ scans = 0 =>
                   upper_bound = IF count < 6 THEN 15 ELSE upper_bound_estimate(count)
             /\ expand_bound(upper_bound) > upper_bound
             /\ 2 * expand_bound(upper_bound) \in {3 * upper_bound - 1, 3 * upper_bound})
    /\ [][(routine = "find_n_primes_parallel" /\ loop_pc = "scanned") =>
             IF Len(primes) >= count
             THEN loop_pc' = "done" /\ result' = SubSeq(primes, 1, count)
             ELSE /\ loop_pc' = "loop"
                  /\ upper_bound' = expand_bound(upper_bound)
                  /\ upper_bound' > upper_bound]_vars

\* The loop ended for the largest count, after a scan up to the estimate.
C28_Witness ==
    /\ routine = "find_n_primes_parallel" /\ loop_pc = "done"
    /\ count = MaxCount /\ scans >= 1
    /\ upper_bound = upper_bound_estimate(MaxCount)
    /\ Len(result) = MaxCount

=============================================================================
